---- MODULE Spec2Model ----
(***************************************************************************)
(* The Glados web UI (src/frontend/src/app.tsx): the App component's       *)
(* state, its event handlers, and the asynchronous continuations of the    *)
(* collaborator calls it makes.  Strings the code inspects or builds are   *)
(* sequences of one-character strings; alert messages, which the code      *)
(* only stores, are plain strings.                                         *)
(***************************************************************************)
EXTENDS Integers, Sequences, FiniteSets, TLC

VARIABLES
    collections,          \* useState<string[]>([])                  app.tsx:42
    selectedCollections,  \* useState<string[]>([])                  app.tsx:43
    queryText,            \* useState<string>('')                    app.tsx:46
    queryResults,         \* useState<QueryResponse | null>(null)    app.tsx:48
    loading,              \* useState<LoadingState>                  app.tsx:49
    alert,                \* useState<AlertState>                    app.tsx:55
    timers,               \* pending setTimeout callbacks of showAlert, oldest first
    slotTimer,            \* which of them the call that raised the shown alert
                          \* scheduled (1: the oldest; 0: no alert is shown)
    projectPath,          \* useState<string>('')                    app.tsx:44
    rulesFile,            \* useState<File | null>(null)             app.tsx:45
    inflight,             \* pending promises, in the order they were created
    mounted,              \* whether the mount effects have run
    ev,                   \* the code path the last step took
    text,                 \* argument of formatContent
    block,                \* value formatContent returned
    bundle,               \* argument of copyResultsToClipboard
    clip                  \* what copyResultsToClipboard did with it

vars == <<collections, selectedCollections, queryText, queryResults, loading,
          alert, timers, slotTimer, projectPath, rulesFile, inflight, mounted, ev,
          text, block, bundle, clip>>

appVars == <<collections, selectedCollections, queryText, queryResults, loading,
             alert, timers, slotTimer, projectPath, rulesFile, inflight, mounted, ev>>

pureVars == <<text, block, bundle, clip>>

\* the fields of the 'Project Configuration' form
projectVars == <<projectPath, rulesFile>>

-----------------------------------------------------------------------------
(* Bounds of the model *)

\* promises that may be pending at once
MaxInFlight == 2

\* auto-hide timers that may be pending at once
MaxTimers == 2

\* fragments a formatContent input is made of
MaxFrags == 3

\* contexts of a bundle given to copyResultsToClipboard
MaxContexts == 2

\* results of one context of such a bundle
MaxResults == 2

-----------------------------------------------------------------------------
(* Strings as sequences of characters *)

RECURSIVE Flatten(_)
Flatten(ss) == IF ss = <<>> THEN <<>> ELSE Head(ss) \o Flatten(Tail(ss))

StartsWith(s, p) == Len(p) <= Len(s) /\ SubSeq(s, 1, Len(p)) = p

\* String.prototype.includes
Includes(s, p) == \E i \in 1..(Len(s) - Len(p) + 1) : SubSeq(s, i, i + Len(p) - 1) = p

Drop(s, n) == SubSeq(s, n + 1, Len(s))

WhiteSpace == {" ", "\t", "\n", "\r"}

RECURSIVE TrimStart(_)
TrimStart(s) == IF s # <<>> /\ Head(s) \in WhiteSpace THEN TrimStart(Tail(s)) ELSE s

RECURSIVE TrimEnd(_)
TrimEnd(s) ==
    IF s # <<>> /\ s[Len(s)] \in WhiteSpace THEN TrimEnd(SubSeq(s, 1, Len(s) - 1)) ELSE s

\* String.prototype.trim
Trim(s) == TrimEnd(TrimStart(s))

-----------------------------------------------------------------------------
(* Literals of the source *)

S_Prompt == <<"P", "r", "o", "m", "p", "t", ":", " ">>
S_From == <<"F", "r", "o", "m", " ">>
S_Source == <<"S", "o", "u", "r", "c", "e", ":", " ">>
S_ColonNL == <<":", "\n">>
S_NL == <<"\n">>
S_NLNL == <<"\n", "\n">>

K_func == <<"f", "u", "n", "c", " ">>
K_var == <<"v", "a", "r", " ">>
K_import == <<"i", "m", "p", "o", "r", "t", " ">>
K_class == <<"c", "l", "a", "s", "s", " ">>

P_Hash == <<"#", " ">>
P_HashHash == <<"#", "#", " ">>
P_Stars == <<"*", "*">>
P_Bullet == <<"\n", "-", " ">>

H5Open == <<"<", "h", "5", ">">>
H5Close == <<"<", "/", "h", "5", ">">>
H6Open == <<"<", "h", "6", ">">>
H6Close == <<"<", "/", "h", "6", ">">>
StrongOpen == <<"<", "s", "t", "r", "o", "n", "g", ">">>
StrongClose == <<"<", "/", "s", "t", "r", "o", "n", "g", ">">>
Br == <<"<", "b", "r", ">">>
\* '<br>' + the bullet glyph U+2022 (one character, written by its code point) + ' '
BrBullet == Br \o <<"U+2022", " ">>

-----------------------------------------------------------------------------
(* copyResultsToClipboard: the text it builds, and what it returns *)

\* project_rules?: string  -- absent (undefined/null) or a string
NoRules == [isNull |-> TRUE]
Rules(s) == [isNull |-> FALSE, value |-> s]

\* queryResults === null
NullResults == [isNull |-> TRUE]

\* faulty variant: no blank line after a result
RECURSIVE AppendResults_NoBlankLine(_, _)
AppendResults_NoBlankLine(clipboardText, results) ==
    IF results = <<>> THEN clipboardText
    ELSE AppendResults_NoBlankLine(
             clipboardText \o S_Source \o Head(results).source \o S_NL
                           \o Head(results).text \o S_NL,
             Tail(results))

\* the inner forEach: one 'Source: ...' entry per result, in order
RECURSIVE AppendResults(_, _)
AppendResults(clipboardText, results) ==
    IF results = <<>> THEN clipboardText
    ELSE AppendResults(
             clipboardText \o S_Source \o Head(results).source \o S_NL
                           \o Head(results).text \o S_NLNL,
             Tail(results))

\* the outer forEach: one 'From ...:' section per context, in order
RECURSIVE AppendContexts(_, _)
AppendContexts(clipboardText, contexts) ==
    IF contexts = <<>> THEN clipboardText
    ELSE AppendContexts(
             AppendResults(clipboardText \o S_From \o Head(contexts).collection \o S_ColonNL,
                           Head(contexts).results),
             Tail(contexts))

\* data.project_rules != null
RulesPresent(data) == ~data.project_rules.isNull

\* the text handed to navigator.clipboard.writeText
ClipboardText(data) ==
    LET header == S_Prompt \o data.query \o S_NLNL
        withRules == IF RulesPresent(data) THEN header \o data.project_rules.value
                     ELSE header
    IN  AppendContexts(withRules, data.contexts)

\* the early return: no contexts, nothing to copy
NothingToCopy(data) == Len(data.contexts) = 0

NoWrite == [attempted |-> FALSE]

\* outcome of the writeText call: "throws" (synchronously: no clipboard API,
\* not allowed), or "promise" (a promise that settles later)
WriteOutcomes == {"throws", "promise"}

\* copyResultsToClipboard(data): what it returns and the write it attempted
copyResultsToClipboard(data, outcome) ==
    IF NothingToCopy(data) THEN [copied |-> FALSE, write |-> NoWrite]
    ELSE [copied |-> outcome # "throws",
          write |-> [attempted |-> TRUE, text |-> ClipboardText(data),
                     pending |-> outcome = "promise"]]

-----------------------------------------------------------------------------
(* formatContent *)

\* what '.' of a regular expression does not match
LineTerminators == {"\n", "\r"}

\* how far a greedy (.*) reaches: the characters before the first line terminator
RECURSIVE DotStar(_)
DotStar(s) ==
    IF s = <<>> \/ Head(s) \in LineTerminators THEN <<>> ELSE <<Head(s)>> \o DotStar(Tail(s))

\* s.replace(/<pat>(.*)/g, open + '$1' + close), pat a literal
RECURSIVE ReplaceToLineEnd(_, _, _, _)
ReplaceToLineEnd(s, pat, open, close) ==
    IF s = <<>> THEN <<>>
    ELSE IF StartsWith(s, pat)
         THEN LET rest == Drop(s, Len(pat))
                  cap == DotStar(rest)
              IN  open \o cap \o close
                       \o ReplaceToLineEnd(Drop(rest, Len(cap)), pat, open, close)
         ELSE <<Head(s)>> \o ReplaceToLineEnd(Tail(s), pat, open, close)

\* where a lazy (.*?) followed by '**' ends: the lengths of the captures that match
BoldCaptures(r) ==
    {j \in 0..(Len(r) - 2) :
        /\ SubSeq(r, j + 1, j + 2) = P_Stars
        /\ \A k \in 1..j : r[k] \notin LineTerminators}

SetMin(S) == CHOOSE m \in S : \A n \in S : m <= n

\* s.replace(/\*\*(.*?)\*\*/g, '<strong>$1</strong>')
RECURSIVE ReplaceBold(_)
ReplaceBold(s) ==
    IF s = <<>> THEN <<>>
    ELSE IF StartsWith(s, P_Stars) /\ BoldCaptures(Drop(s, 2)) # {}
         THEN LET r == Drop(s, 2)
                  j == SetMin(BoldCaptures(r))
              IN  StrongOpen \o SubSeq(r, 1, j) \o StrongClose \o ReplaceBold(Drop(r, j + 2))
         ELSE <<Head(s)>> \o ReplaceBold(Tail(s))

\* s.replace(/\n/g, '<br>')
RECURSIVE ReplaceNewlines(_)
ReplaceNewlines(s) ==
    IF s = <<>> THEN <<>>
    ELSE IF Head(s) = "\n" THEN Br \o ReplaceNewlines(Tail(s))
         ELSE <<Head(s)>> \o ReplaceNewlines(Tail(s))

\* faulty variant: 'class ' is not looked for
isCode_NoClass(t) ==
    \/ Includes(t, K_func)
    \/ Includes(t, K_var)
    \/ Includes(t, K_import)

isCode(t) ==
    \/ Includes(t, K_func)
    \/ Includes(t, K_var)
    \/ Includes(t, K_import)
    \/ Includes(t, K_class)

\* the first substitution: /# (.*)/g
ReplaceH5(s) == ReplaceToLineEnd(s, P_Hash, H5Open, H5Close)

\* the second substitution: /## (.*)/g
ReplaceH6(s) == ReplaceToLineEnd(s, P_HashHash, H6Open, H6Close)

\* the fourth substitution: /\n- (.*)/g
ReplaceBullets(s) == ReplaceToLineEnd(s, P_Bullet, BrBullet, <<>>)

formattedText(t) ==
    ReplaceNewlines(ReplaceBullets(ReplaceBold(ReplaceH6(ReplaceH5(t)))))

\* <pre>{text}</pre>, or <div dangerouslySetInnerHTML={{ __html: formattedText }} />
formatContent(t) ==
    IF isCode(t) THEN [kind |-> "Code", content |-> t]
    ELSE [kind |-> "Markup", content |-> formattedText(t)]

-----------------------------------------------------------------------------
(* The App component: state after construction *)

\* rulesFile === null
NoFile == [chosen |-> FALSE]

HiddenAlert == [show |-> FALSE, variant |-> "info", message |-> ""]

M_EnterQuery == "Please enter a query"
M_NoResults == "No relevant results found. Try a different query."
M_Copied == "Context copied to clipboard!"
M_Retrieved == "Context retrieved successfully!"
M_QueryError == "Error querying: <detail>"
M_DocsIndexed == "Godot documentation indexed successfully!"
M_DocsError == "Error indexing documentation: <detail>"
M_EnterPath == "Please enter a project path"
M_ProjectIndexed == "Project indexed successfully!"
M_ProjectError == "Error indexing project: <detail>"
M_ApiDown == "API may be starting up or unavailable. Connecting to: <API_URL>"

\* what the last step did: the code path ("input": a field was edited or the alert
\* closed), the position in inflight of the promise it
\* settled (0: none), the clipboard write it made, the alert message it or the query
\* it belongs to raised or, of a timeout, hid ("": none), the response it received (of
\* a query), the value of slotTimer a timeout found (0 otherwise)
Ev(op, pos, write, msg) ==
    [op |-> op, pos |-> pos, write |-> write, msg |-> msg, data |-> NullResults,
     timer |-> 0]

Step(op) == Ev(op, 0, "none", "")

AppInit ==
    /\ collections = <<>>
    /\ selectedCollections = <<>>
    /\ queryText = <<>>
    /\ queryResults = NullResults
    /\ loading = [indexProject |-> FALSE, indexDocs |-> FALSE,
                  query |-> FALSE, collections |-> FALSE]
    /\ alert = HiddenAlert
    /\ timers = 0
    /\ slotTimer = 0
    /\ projectPath = <<>>
    /\ rulesFile = NoFile
    /\ inflight = <<>>
    /\ mounted = FALSE
    /\ ev = Step("init")

PureIdle ==
    /\ text = <<>>
    /\ block = [kind |-> "none"]
    /\ bundle = [query |-> <<>>, project_rules |-> NoRules, contexts |-> <<>>]
    /\ clip = [called |-> FALSE]

Init == AppInit /\ PureIdle

-----------------------------------------------------------------------------
(* Inputs: what the user types and what the collaborator answers *)

C_docs == <<"d", "o", "c", "s">>
C_proj == <<"p", "r", "j">>

CollectionNames == {C_docs, C_proj}

\* values of the 'Godot Project Path' field
ProjectPaths == {<<>>, <<"p">>}

\* values of the query textarea
QueryTexts == {<<>>, <<" ">>, <<"q">>}

\* GET collections -> {success, collections}
CollectionsResponses ==
    { [success |-> FALSE, collections |-> <<>>],
      [success |-> TRUE, collections |-> <<>>],
      [success |-> TRUE, collections |-> <<C_docs>>] }

Hit == [source |-> <<"a">>, text |-> <<"h", "i">>]

\* POST query -> {query, project_rules?, contexts}
QueryResponses(req) ==
    { [query |-> req.query, project_rules |-> NoRules, contexts |-> <<>>],
      [query |-> req.query, project_rules |-> NoRules,
       contexts |-> <<[collection |-> C_docs, results |-> <<>>]>>],
      [query |-> req.query, project_rules |-> NoRules,
       contexts |-> <<[collection |-> C_docs, results |-> <<Hit>>]>>] }

-----------------------------------------------------------------------------
(* Helpers of the state machine *)

Remove(q, i) == SubSeq(q, 1, i - 1) \o SubSeq(q, i + 1, Len(q))

Pending(kind) == {i \in 1..Len(inflight) : inflight[i].kind = kind}

\* promises whose settling calls showAlert at most once
Alerting ==
    {i \in 1..Len(inflight) :
        inflight[i].kind \in {"query", "indexDocs", "health", "uploadRules", "indexProject"}}

\* room for n more pending promises
PromiseRoom(n) == Len(inflight) + n <= MaxInFlight

\* room for n more timers beside those the pending promises may still schedule
TimerRoom(n) == timers + Cardinality(Alerting) + n <= MaxTimers

ShownAlert(message, variant) == [show |-> TRUE, variant |-> variant, message |-> message]

\* showAlert(message, variant): the slot is overwritten and a timeout is scheduled.
\* Every timeout has the same delay, so the pending ones run in the order they were
\* scheduled: timers counts them, the newest is the one this call adds
showAlert(message, variant) ==
    /\ alert' = ShownAlert(message, variant)
    /\ timers' = timers + 1
    /\ slotTimer' = timers + 1

\* disabled={loading.query || !queryText.trim() || selectedCollections.length === 0}
SubmitDisabled ==
    loading.query \/ Trim(queryText) = <<>> \/ Len(selectedCollections) = 0

-----------------------------------------------------------------------------
(* Mount effects and fetchCollections *)

CollectionsRequest == [kind |-> "collections"]
HealthRequest == [kind |-> "health"]
IndexDocsRequest == [kind |-> "indexDocs"]
QueryRequest == [kind |-> "query", query |-> queryText, collections |-> selectedCollections]

\* useEffect(..., []) twice: checkApiStatus() and fetchCollections() up to their awaits
Mount ==
    /\ UNCHANGED <<pureVars, projectVars>>
    /\ ~mounted
    /\ PromiseRoom(2) /\ TimerRoom(1)
    /\ mounted' = TRUE
    /\ loading' = [loading EXCEPT !.collections = TRUE]
    /\ inflight' = inflight \o <<HealthRequest, CollectionsRequest>>
    /\ ev' = Step("mount")
    /\ UNCHANGED <<collections, selectedCollections, queryText, queryResults, alert,
                   timers, slotTimer>>

\* checkApiStatus: the health probe answered
HealthOk(i) ==
    /\ UNCHANGED <<pureVars, projectVars>>
    /\ i \in Pending("health")
    /\ inflight' = Remove(inflight, i)
    /\ ev' = Ev("health.ok", i, "none", "")
    /\ UNCHANGED <<collections, selectedCollections, queryText, queryResults, loading,
                   alert, timers, slotTimer, mounted>>

\* checkApiStatus: catch
HealthFails(i) ==
    /\ UNCHANGED <<pureVars, projectVars>>
    /\ i \in Pending("health")
    /\ showAlert(M_ApiDown, "warning")
    /\ inflight' = Remove(inflight, i)
    /\ ev' = Ev("health.catch", i, "none", M_ApiDown)
    /\ UNCHANGED <<collections, selectedCollections, queryText, queryResults, loading, mounted>>

\* response.data.success && response.data.collections.length > 0
CollectionsAccepted(data) == data.success /\ Len(data.collections) > 0

\* fetchCollections after its await: the response arrived
FetchCollectionsOk(i) ==
    /\ UNCHANGED <<pureVars, projectVars>>
    /\ i \in Pending("collections")
    /\ \E data \in CollectionsResponses :
          IF CollectionsAccepted(data)
          THEN /\ collections' = data.collections
               /\ selectedCollections' = data.collections
          ELSE UNCHANGED <<collections, selectedCollections>>
    /\ loading' = [loading EXCEPT !.collections = FALSE]
    /\ inflight' = Remove(inflight, i)
    /\ ev' = Ev("fetchCollections.ok", i, "none", "")
    /\ UNCHANGED <<queryText, queryResults, alert, timers, slotTimer, mounted>>

\* faulty variant: the catch block reports the failure
FetchCollectionsCatch_Alerts == showAlert("Error fetching collections", "danger")

\* what the catch block of fetchCollections does to the alert slot and the timers
FetchCollectionsCatch == UNCHANGED <<alert, timers, slotTimer>>

\* fetchCollections after its await: the request failed (catch, then finally)
FetchCollectionsFails(i) ==
    /\ UNCHANGED <<pureVars, projectVars>>
    /\ i \in Pending("collections")
    /\ FetchCollectionsCatch
    /\ loading' = [loading EXCEPT !.collections = FALSE]
    /\ inflight' = Remove(inflight, i)
    /\ ev' = Ev("fetchCollections.catch", i, "none", "")
    /\ UNCHANGED <<collections, selectedCollections, queryText, queryResults, mounted>>

-----------------------------------------------------------------------------
(* handleIndexDocs *)

\* onClick of the 'Index Godot Docs' button, disabled={loading.indexDocs}
handleIndexDocs ==
    /\ UNCHANGED <<pureVars, projectVars>>
    /\ mounted
    /\ ~loading.indexDocs
    /\ PromiseRoom(1) /\ TimerRoom(1)
    /\ loading' = [loading EXCEPT !.indexDocs = TRUE]
    /\ inflight' = Append(inflight, IndexDocsRequest)
    /\ ev' = Step("handleIndexDocs")
    /\ UNCHANGED <<collections, selectedCollections, queryText, queryResults, alert,
                   timers, slotTimer, mounted>>

\* handleIndexDocs after its await: the response arrived
IndexDocsOk(i) ==
    /\ UNCHANGED <<pureVars, projectVars>>
    /\ i \in Pending("indexDocs")
    /\ \E success \in BOOLEAN :
          IF success
          THEN /\ showAlert(M_DocsIndexed, "success")
               /\ loading' = [loading EXCEPT !.collections = TRUE, !.indexDocs = FALSE]
               /\ inflight' = Append(Remove(inflight, i), CollectionsRequest)
               /\ ev' = Ev("handleIndexDocs.ok", i, "none", M_DocsIndexed)
          ELSE /\ loading' = [loading EXCEPT !.indexDocs = FALSE]
               /\ inflight' = Remove(inflight, i)
               /\ ev' = Ev("handleIndexDocs.ok", i, "none", "")
               /\ UNCHANGED <<alert, timers, slotTimer>>
    /\ UNCHANGED <<collections, selectedCollections, queryText, queryResults, mounted>>

\* handleIndexDocs after its await: the request failed
IndexDocsFails(i) ==
    /\ UNCHANGED <<pureVars, projectVars>>
    /\ i \in Pending("indexDocs")
    /\ showAlert(M_DocsError, "danger")
    /\ loading' = [loading EXCEPT !.indexDocs = FALSE]
    /\ inflight' = Remove(inflight, i)
    /\ ev' = Ev("handleIndexDocs.catch", i, "none", M_DocsError)
    /\ UNCHANGED <<collections, selectedCollections, queryText, queryResults, mounted>>

-----------------------------------------------------------------------------
(* handleIndexProject *)

\* onChange of the 'Godot Project Path' field: setProjectPath(e.target.value)
setProjectPath(v) ==
    /\ UNCHANGED pureVars
    /\ mounted
    /\ v # projectPath
    /\ projectPath' = v
    /\ ev' = Step("input")
    /\ UNCHANGED <<collections, selectedCollections, queryText, queryResults, loading,
                   alert, timers, slotTimer, rulesFile, inflight, mounted>>

\* onChange of the 'Rules File' field with a file picked: setRulesFile(files[0])
setRulesFile ==
    /\ UNCHANGED pureVars
    /\ mounted
    /\ rulesFile = NoFile
    /\ rulesFile' = [chosen |-> TRUE]
    /\ ev' = Step("input")
    /\ UNCHANGED <<collections, selectedCollections, queryText, queryResults, loading,
                   alert, timers, slotTimer, projectPath, inflight, mounted>>

\* disabled={loading.indexProject || !projectPath}
IndexProjectDisabled == loading.indexProject \/ projectPath = <<>>

UploadRulesRequest == [kind |-> "uploadRules", project_path |-> projectPath]
IndexProjectRequest(path) ==
    [kind |-> "indexProject", project_path |-> path, chunk_size |-> 1000,
     chunk_overlap |-> 200]

\* handleIndexProject up to its first await; op names how the submit event came about
handleIndexProject(op) ==
    /\ UNCHANGED pureVars
    /\ mounted
    /\ IF projectPath = <<>>
       THEN /\ TimerRoom(1)
            /\ showAlert(M_EnterPath, "danger")
            /\ ev' = Ev(op, 0, "none", M_EnterPath)
            /\ UNCHANGED <<loading, inflight>>
       ELSE /\ PromiseRoom(1) /\ TimerRoom(1)
            /\ loading' = [loading EXCEPT !.indexProject = TRUE]
            /\ inflight' = Append(inflight, IF rulesFile # NoFile
                                            THEN UploadRulesRequest
                                            ELSE IndexProjectRequest(projectPath))
            /\ ev' = Step(op)
            /\ UNCHANGED <<alert, timers, slotTimer>>
    /\ UNCHANGED <<collections, selectedCollections, queryText, queryResults,
                   projectPath, rulesFile, mounted>>

\* the user presses the enabled 'Index Project' button
IndexProjectClick ==
    /\ ~IndexProjectDisabled
    /\ handleIndexProject("handleIndexProject.click")

\* a submit event reaches the form's onSubmit without the button
IndexProjectEvent == handleIndexProject("handleIndexProject.event")

\* handleIndexProject after the await of POST upload-rules: the file was stored, POST
\* index-project goes out with the path the handler was called with
UploadRulesOk(i) ==
    /\ UNCHANGED <<pureVars, projectVars>>
    /\ i \in Pending("uploadRules")
    /\ inflight' = Append(Remove(inflight, i), IndexProjectRequest(inflight[i].project_path))
    /\ ev' = Ev("uploadRules.ok", i, "none", "")
    /\ UNCHANGED <<collections, selectedCollections, queryText, queryResults, loading,
                   alert, timers, slotTimer, mounted>>

\* what the catch and finally blocks of handleIndexProject do
IndexProjectCatch(i, op) ==
    /\ UNCHANGED <<pureVars, projectVars>>
    /\ showAlert(M_ProjectError, "danger")
    /\ loading' = [loading EXCEPT !.indexProject = FALSE]
    /\ inflight' = Remove(inflight, i)
    /\ ev' = Ev(op, i, "none", M_ProjectError)
    /\ UNCHANGED <<collections, selectedCollections, queryText, queryResults, mounted>>

\* handleIndexProject after the await of POST upload-rules: the upload failed
UploadRulesFails(i) ==
    /\ i \in Pending("uploadRules")
    /\ IndexProjectCatch(i, "uploadRules.catch")

\* handleIndexProject after the await of POST index-project: the response arrived
IndexProjectOk(i) ==
    /\ UNCHANGED <<pureVars, projectVars>>
    /\ i \in Pending("indexProject")
    /\ \E success \in BOOLEAN :
          IF success
          THEN /\ showAlert(M_ProjectIndexed, "success")
               /\ loading' = [loading EXCEPT !.collections = TRUE, !.indexProject = FALSE]
               /\ inflight' = Append(Remove(inflight, i), CollectionsRequest)
               /\ ev' = Ev("handleIndexProject.ok", i, "none", M_ProjectIndexed)
          ELSE /\ loading' = [loading EXCEPT !.indexProject = FALSE]
               /\ inflight' = Remove(inflight, i)
               /\ ev' = Ev("handleIndexProject.ok", i, "none", "")
               /\ UNCHANGED <<alert, timers, slotTimer>>
    /\ UNCHANGED <<collections, selectedCollections, queryText, queryResults, mounted>>

\* handleIndexProject after the await of POST index-project: the request failed
IndexProjectFails(i) ==
    /\ i \in Pending("indexProject")
    /\ IndexProjectCatch(i, "handleIndexProject.catch")

-----------------------------------------------------------------------------
(* The query form *)

\* onChange of the textarea: setQueryText(e.target.value)
setQueryText(v) ==
    /\ UNCHANGED <<pureVars, projectVars>>
    /\ mounted
    /\ v # queryText
    /\ queryText' = v
    /\ ev' = Step("input")
    /\ UNCHANGED <<collections, selectedCollections, queryResults, loading, alert, timers,
                   slotTimer,
                   inflight, mounted>>

\* selectedCollections.filter(c => c !== collection)
RECURSIVE Without(_, _)
Without(q, c) ==
    IF q = <<>> THEN <<>>
    ELSE IF Head(q) = c THEN Without(Tail(q), c) ELSE <<Head(q)>> \o Without(Tail(q), c)

Elems(q) == {q[i] : i \in 1..Len(q)}

\* onChange of a collection checkbox; the checkboxes are rendered for the known
\* collections while loading.collections is false
handleCollectionChange(c) ==
    /\ UNCHANGED <<pureVars, projectVars>>
    /\ ~loading.collections
    /\ c \in Elems(collections)
    /\ selectedCollections' = IF c \in Elems(selectedCollections)
                              THEN Without(selectedCollections, c)
                              ELSE Append(selectedCollections, c)
    /\ ev' = Step("input")
    /\ UNCHANGED <<collections, queryText, queryResults, loading, alert, timers,
                   slotTimer,
                   inflight, mounted>>

\* faulty variant: the check forgets trim()
QueryTextMissing_NoTrim == queryText = <<>>

\* !queryText.trim()
QueryTextMissing == Trim(queryText) = <<>>

\* what handleQuery checks before it dispatches
QueryRejected == QueryTextMissing

\* handleQuery up to its await; op names how the submit event came about
handleQuery(op) ==
    /\ UNCHANGED <<pureVars, projectVars>>
    /\ mounted
    /\ IF QueryRejected
       THEN /\ TimerRoom(1)
            /\ showAlert(M_EnterQuery, "warning")
            /\ ev' = Ev(op, 0, "none", M_EnterQuery)
            /\ UNCHANGED <<loading, inflight>>
       ELSE /\ PromiseRoom(1) /\ TimerRoom(1)
            /\ loading' = [loading EXCEPT !.query = TRUE]
            /\ inflight' = Append(inflight, QueryRequest)
            /\ ev' = Step(op)
            /\ UNCHANGED <<alert, timers, slotTimer>>
    /\ UNCHANGED <<collections, selectedCollections, queryText, queryResults, mounted>>

\* the user presses the enabled 'Submit Query' button
SubmitClick ==
    /\ ~SubmitDisabled
    /\ handleQuery("handleQuery.click")

\* a submit event reaches the form's onSubmit without the button (requestSubmit(),
\* a dispatched event): the button's disabled attribute is not consulted
SubmitEvent == handleQuery("handleQuery.event")

HandleQueryOps == {"handleQuery.click", "handleQuery.event"}

\* faulty variant: a bundle already displayed is kept
Displayed_KeepFirst(prev, data) == IF prev = NullResults THEN data ELSE prev

\* setQueryResults(response.data)
Displayed(prev, data) == data

\* response.data.contexts.length === 0
NoContexts(data) == Len(data.contexts) = 0

\* the alert handleQuery raises on success, given what copyResultsToClipboard returned
SuccessMessage(data, copied) ==
    IF NoContexts(data) THEN M_NoResults
    ELSE IF copied THEN M_Copied ELSE M_Retrieved

SuccessVariant(data) == IF NoContexts(data) THEN "info" ELSE "success"

\* the clipboard write handleQuery causes on success
SuccessWrite(data, outcome) ==
    IF NoContexts(data) THEN NoWrite ELSE copyResultsToClipboard(data, outcome).write

\* handleQuery after its await: the response arrived.  The promise of a pending
\* clipboard write remembers the bundle it serialized, the alert its query raised and
\* whether the query named a collection
QueryOk(i) ==
    /\ UNCHANGED <<pureVars, projectVars>>
    /\ i \in Pending("query")
    /\ \E data \in QueryResponses(inflight[i]), outcome \in WriteOutcomes :
          LET copied == ~NoContexts(data) /\ copyResultsToClipboard(data, outcome).copied
              write == SuccessWrite(data, outcome)
              message == SuccessMessage(data, copied)
          IN  /\ queryResults' = Displayed(queryResults, data)
              /\ showAlert(message, SuccessVariant(data))
              /\ inflight' =
                    IF write.attempted /\ write.pending
                    THEN Append(Remove(inflight, i),
                                [kind |-> "clipboard", text |-> write.text,
                                 data |-> data, msg |-> message,
                                 named |-> Len(inflight[i].collections) > 0])
                    ELSE Remove(inflight, i)
              /\ ev' = [Ev("handleQuery.ok", i,
                             IF ~write.attempted THEN "none"
                             ELSE IF write.pending THEN "pending" ELSE "threw",
                             message) EXCEPT !.data = data]
    /\ loading' = [loading EXCEPT !.query = FALSE]
    /\ UNCHANGED <<collections, selectedCollections, queryText, mounted>>

\* faulty variant: a failed request is sent again
QueryFails_Retry(i) ==
    /\ UNCHANGED <<pureVars, projectVars>>
    /\ i \in Pending("query")
    /\ showAlert(M_QueryError, "danger")
    /\ inflight' = Append(Remove(inflight, i), inflight[i])
    /\ ev' = Ev("handleQuery.catch", i, "none", M_QueryError)
    /\ UNCHANGED <<collections, selectedCollections, queryText, queryResults, loading, mounted>>

\* handleQuery after its await: the request failed (transport or server error)
QueryFails(i) ==
    /\ UNCHANGED <<pureVars, projectVars>>
    /\ i \in Pending("query")
    /\ showAlert(M_QueryError, "danger")
    /\ loading' = [loading EXCEPT !.query = FALSE]
    /\ inflight' = Remove(inflight, i)
    /\ ev' = Ev("handleQuery.catch", i, "none", M_QueryError)
    /\ UNCHANGED <<collections, selectedCollections, queryText, queryResults, mounted>>

\* navigator.clipboard.writeText(...).then
ClipboardResolves(i) ==
    /\ UNCHANGED <<pureVars, projectVars>>
    /\ i \in Pending("clipboard")
    /\ inflight' = Remove(inflight, i)
    /\ ev' = Ev("clipboard.then", i, "written", inflight[i].msg)
    /\ UNCHANGED <<collections, selectedCollections, queryText, queryResults, loading,
                   alert, timers, slotTimer, mounted>>

\* navigator.clipboard.writeText(...).catch
ClipboardRejects(i) ==
    /\ UNCHANGED <<pureVars, projectVars>>
    /\ i \in Pending("clipboard")
    /\ inflight' = Remove(inflight, i)
    /\ ev' = Ev("clipboard.catch", i, "rejected", inflight[i].msg)
    /\ UNCHANGED <<collections, selectedCollections, queryText, queryResults, loading,
                   alert, timers, slotTimer, mounted>>

-----------------------------------------------------------------------------
(* The alert slot *)

\* onClose of the alert
Dismiss ==
    /\ UNCHANGED <<pureVars, projectVars>>
    /\ alert.show
    /\ alert' = HiddenAlert
    /\ slotTimer' = 0
    /\ ev' = Step("input")
    /\ UNCHANGED <<collections, selectedCollections, queryText, queryResults, loading,
                   timers, inflight, mounted>>

\* faulty variant: a timeout hides only the alert its own call raised
TimerFires_OwnAlertOnly ==
    /\ UNCHANGED <<pureVars, projectVars>>
    /\ timers > 0
    /\ timers' = timers - 1
    /\ alert' = IF slotTimer = 1 THEN HiddenAlert ELSE alert
    /\ slotTimer' = IF slotTimer > 1 THEN slotTimer - 1 ELSE 0
    /\ ev' = [Step("alert.timeout") EXCEPT !.timer = slotTimer, !.msg = alert.message]
    /\ UNCHANGED <<collections, selectedCollections, queryText, queryResults, loading,
                   inflight, mounted>>

\* the oldest pending setTimeout callback of showAlert runs:
\* setAlert({show: false, variant: 'info', message: ''}), whatever the slot holds
TimerFires ==
    /\ UNCHANGED <<pureVars, projectVars>>
    /\ timers > 0
    /\ timers' = timers - 1
    /\ alert' = HiddenAlert
    /\ slotTimer' = 0
    /\ ev' = [Step("alert.timeout") EXCEPT !.timer = slotTimer, !.msg = alert.message]
    /\ UNCHANGED <<collections, selectedCollections, queryText, queryResults, loading,
                   inflight, mounted>>

-----------------------------------------------------------------------------
(* The specification of the App component *)

Settle(i) ==
    \/ HealthOk(i)
    \/ HealthFails(i)
    \/ FetchCollectionsOk(i)
    \/ FetchCollectionsFails(i)
    \/ IndexDocsOk(i)
    \/ IndexDocsFails(i)
    \/ QueryOk(i)
    \/ QueryFails(i)
    \/ ClipboardResolves(i)
    \/ ClipboardRejects(i)

Next ==
    \/ Mount
    \/ \E v \in QueryTexts : setQueryText(v)
    \/ \E c \in CollectionNames : handleCollectionChange(c)
    \/ SubmitClick
    \/ SubmitEvent
    \/ handleIndexDocs
    \/ \E i \in 1..MaxInFlight : Settle(i)
    \/ Dismiss
    \/ TimerFires

Spec == Init /\ [][Next]_vars

\* the App component with the 'Project Configuration' form in use as well
SettleProject(i) ==
    \/ UploadRulesOk(i)
    \/ UploadRulesFails(i)
    \/ IndexProjectOk(i)
    \/ IndexProjectFails(i)

IndexingNext ==
    \/ Next
    \/ \E v \in ProjectPaths : setProjectPath(v)
    \/ setRulesFile
    \/ IndexProjectClick
    \/ IndexProjectEvent
    \/ \E i \in 1..MaxInFlight : SettleProject(i)

SpecIndexing == Init /\ [][IndexingNext]_vars

-----------------------------------------------------------------------------
(* copyResultsToClipboard on its own: every bundle of a bounded shape *)

ResultTexts == {<<"a">>, <<"b", "\n">>}

ResultSeqs ==
    UNION {[1..n -> [source : {<<"s">>}, text : ResultTexts]] : n \in 0..MaxResults}

ContextSeqs ==
    UNION {[1..n -> [collection : CollectionNames, results : ResultSeqs]] :
              n \in 0..MaxContexts}

Bundles ==
    [query : {<<"q">>},
     project_rules : {NoRules, Rules(<<>>), Rules(<<"r", "\n">>)},
     contexts : ContextSeqs]

SerializeInit ==
    /\ AppInit
    /\ text = <<>>
    /\ block = [kind |-> "none"]
    /\ bundle \in Bundles
    /\ clip = [called |-> FALSE]

\* copyResultsToClipboard(bundle)
CopyBundle ==
    /\ ~clip.called
    /\ \E outcome \in WriteOutcomes :
          clip' = [called |-> TRUE, result |-> copyResultsToClipboard(bundle, outcome)]
    /\ UNCHANGED <<text, block, bundle>>
    /\ UNCHANGED appVars

SerializeNext == CopyBundle

SpecSerialize == SerializeInit /\ [][SerializeNext]_vars

-----------------------------------------------------------------------------
(* formatContent on its own: every text made of a few fragments *)

Fragments ==
    { K_func, K_var, K_import, K_class,
      <<"V", "a", "r", " ">>, <<"v", "a">>, <<"r", " ">>,
      P_Hash, P_HashHash, P_Stars, <<"\n">>, <<"-", " ">>, <<"a">> }

Texts == {Flatten(fs) : fs \in UNION {[1..n -> Fragments] : n \in 0..MaxFrags}}

FormatInit ==
    /\ AppInit
    /\ text \in Texts
    /\ block = [kind |-> "none"]
    /\ bundle = [query |-> <<>>, project_rules |-> NoRules, contexts |-> <<>>]
    /\ clip = [called |-> FALSE]

\* formatContent(text)
Render ==
    /\ block.kind = "none"
    /\ block' = formatContent(text)
    /\ UNCHANGED <<text, bundle, clip>>
    /\ UNCHANGED appVars

FormatNext == Render

SpecFormat == FormatInit /\ [][FormatNext]_vars

-----------------------------------------------------------------------------
(* Properties *)

Blank(s) == \A k \in 1..Len(s) : s[k] \in WhiteSpace

Queries(q) == {i \in 1..Len(q) : q[i].kind = "query"}

RECURSIVE TotalResults(_)
TotalResults(contexts) ==
    IF contexts = <<>> THEN 0 ELSE Len(Head(contexts).results) + TotalResults(Tail(contexts))

\* C1: a submit with empty or whitespace-only text raises the validation alert and
\* returns: no POST query is issued, the displayed bundle and the loading flags stay
C1_BlankQueryNotPosted ==
    [][(ev'.op \in HandleQueryOps /\ Blank(queryText)) =>
           /\ inflight' = inflight
           /\ alert' = ShownAlert(M_EnterQuery, "warning")
           /\ queryResults' = queryResults
           /\ loading' = loading]_vars

C1_Witness ==
    /\ ev.op \in HandleQueryOps
    /\ queryText = <<" ">>
    /\ ev.msg = M_EnterQuery
    /\ alert = ShownAlert(M_EnterQuery, "warning")

\* C2: a submit while no collection is selected issues no POST query
C2_EmptySelectionNotPosted ==
    [][(ev'.op \in HandleQueryOps /\ Len(selectedCollections) = 0) =>
           inflight' = inflight]_vars

\* C3: a successful query whose contexts hold no result at all shows the 'no results'
\* notice and attempts no clipboard write (stated for the queries that named at least
\* one collection)
C3_NoResultsNoticeNoWrite ==
    [][(/\ ev'.op = "handleQuery.ok"
        /\ Len(inflight[ev'.pos].collections) > 0
        /\ TotalResults(ev'.data.contexts) = 0) =>
           /\ alert' = ShownAlert(M_NoResults, "info")
           /\ ev'.write = "none"]_vars

\* C4: when a query succeeded with at least one result and its clipboard write failed
\* (thrown or rejected), the alert raised for that query is 'Context retrieved
\* successfully!' (stated for the queries that named at least one collection)
C4_ClipboardFailureDowngraded ==
    [][/\ (/\ ev'.op = "handleQuery.ok"
           /\ ev'.write = "threw"
           /\ Len(inflight[ev'.pos].collections) > 0
           /\ TotalResults(ev'.data.contexts) > 0)
          => alert' = ShownAlert(M_Retrieved, "success")
       /\ (/\ ev'.op = "clipboard.catch"
           /\ inflight[ev'.pos].named
           /\ TotalResults(inflight[ev'.pos].data.contexts) > 0)
          => ev'.msg = M_Retrieved]_vars

\* C5: the bundle displayed after a query resolved successfully is exactly the response
\* that just arrived, whatever was displayed and whatever else is pending; every
\* pending query can still resolve
C5_LastResolvedDisplayed ==
    /\ ev.op = "handleQuery.ok" => queryResults = ev.data
    /\ \A i \in Pending("query") : ENABLED QueryOk(i)

\* the request submitted second resolved while the one submitted first is pending
C5_Witness ==
    /\ ev.op = "handleQuery.ok"
    /\ ev.pos = 2
    /\ 1 \in Pending("query")
    /\ queryResults = ev.data

\* C6: a failed collection refresh leaves the known collections, the selection and
\* the alert as they were and only resets loading.collections
C6_RefreshFailureSilent ==
    [][ev'.op = "fetchCollections.catch" =>
           /\ collections' = collections
           /\ selectedCollections' = selectedCollections
           /\ alert' = alert
           /\ timers' = timers
           /\ queryResults' = queryResults
           /\ loading' = [loading EXCEPT !.collections = FALSE]]_vars

C6_Witness ==
    /\ ev.op = "fetchCollections.catch"
    /\ collections = <<C_docs>>
    /\ selectedCollections = <<>>
    /\ ~loading.collections

\* the clipboard text, section by section
ResultEntry(r) == S_Source \o r.source \o S_NL \o r.text \o S_NL \o S_NL

ContextSection(c) ==
    S_From \o c.collection \o <<":">> \o S_NL
           \o Flatten([j \in 1..Len(c.results) |-> ResultEntry(c.results[j])])

ExpectedText(b) ==
    S_Prompt \o b.query \o S_NL \o S_NL
             \o (IF b.project_rules = NoRules THEN <<>> ELSE b.project_rules.value)
             \o Flatten([k \in 1..Len(b.contexts) |-> ContextSection(b.contexts[k])])

\* C7: the text copyResultsToClipboard hands to the clipboard is the prompt header, the
\* raw rules text when the field is present, then one 'From' section per context and
\* one 'Source' entry per result, in the bundle's order
C7_ClipboardTextLayout ==
    (clip.called /\ clip.result.write.attempted) =>
        clip.result.write.text = ExpectedText(bundle)

C7_Witness ==
    /\ clip.called
    /\ clip.result.write.attempted
    /\ bundle.project_rules = Rules(<<>>)
    /\ Len(bundle.contexts) = 2
    /\ Len(bundle.contexts[1].results) = 2
    /\ bundle.contexts[1].results[1] # bundle.contexts[1].results[2]
    /\ bundle.contexts[1].collection # bundle.contexts[2].collection

Keywords == {K_func, K_var, K_import, K_class}

HasKeyword(t) ==
    \E i \in 1..Len(t), j \in 1..Len(t) : i <= j /\ SubSeq(t, i, j) \in Keywords

\* C8: formatContent returns Code, with the text verbatim, exactly for the texts that
\* contain 'func ', 'var ', 'import ' or 'class '; every other text is Markup
C8_CodeClassification ==
    block.kind # "none" =>
        /\ block.kind \in {"Code", "Markup"}
        /\ block.kind = "Code" <=> HasKeyword(text)
        /\ block.kind = "Code" => block.content = text

\* a text with 'class ' and markup characters is returned verbatim
C8_Witness ==
    /\ block.kind = "Code"
    /\ Includes(text, K_class)
    /\ Includes(text, P_HashHash)
    /\ block.content = text

PlainChars(r) == \A k \in 1..Len(r) : r[k] \notin {"#", "*", "-"}

\* C9: in a Markup text whose first line is '# ' or '## ' followed by plain text, the
\* output starts with the level-5, respectively level-6, heading holding that text,
\* and a text that is only such a line leaves no '#' in the output
C9_HeadingLevels ==
    block.kind = "Markup" =>
        LET line == DotStar(text)
        IN  /\ (StartsWith(line, P_Hash) /\ PlainChars(Drop(line, 2)))
                  => StartsWith(block.content, H5Open \o Drop(line, 2) \o H5Close)
            /\ (StartsWith(line, P_HashHash) /\ PlainChars(Drop(line, 3)))
                  => /\ StartsWith(block.content, H6Open \o Drop(line, 3) \o H6Close)
                     /\ (line = text => "#" \notin Elems(block.content))

\* C10: a failed query raises a danger alert, leaves the displayed bundle, resets
\* loading.query and starts no request; a POST query is only ever started by a submit,
\* one per submit
C10_FailureNotRetried ==
    [][/\ ev'.op = "handleQuery.catch" =>
             /\ inflight[ev'.pos].kind = "query"
             /\ inflight' = Remove(inflight, ev'.pos)
             /\ alert' = ShownAlert(M_QueryError, "danger")
             /\ queryResults' = queryResults
             /\ ~loading'.query
       /\ Cardinality(Queries(inflight')) > Cardinality(Queries(inflight)) =>
             /\ ev'.op \in HandleQueryOps
             /\ Cardinality(Queries(inflight')) = Cardinality(Queries(inflight)) + 1]_vars

\* a query failed while an earlier bundle was displayed
C10_Witness ==
    /\ ev.op = "handleQuery.catch"
    /\ queryResults # NullResults
    /\ alert = ShownAlert(M_QueryError, "danger")
    /\ ~loading.query
    /\ Pending("query") = {}

\* a step that called showAlert: it scheduled a timeout
AlertRaised == timers' = timers + 1

\* the user closed the alert
AlertDismissed == ev'.op = "input" /\ alert' = HiddenAlert

\* C11: the slot holds the alert of the last showAlert call, and an alert on display
\* leaves the slot only when a newer call overwrites it, the user dismisses it, or the
\* timeout scheduled by the call that raised it runs: the timeout of an earlier call
\* never hides an alert raised by a later call
C11_HiddenByOwnTimeoutOnly ==
    [][/\ AlertRaised => (alert'.show /\ alert'.message = ev'.msg)
       /\ (alert.show /\ alert' # alert) =>
             \/ AlertRaised
             \/ AlertDismissed
             \/ ev'.op = "alert.timeout" /\ ev'.timer = 1]_vars

\* C11, amended: the slot holds the alert of the last showAlert call, and an alert on
\* display leaves the slot only when a newer call overwrites it, the user dismisses
\* it, or the oldest pending timeout runs; every timeout hides whatever alert the
\* slot holds, whichever call raised it
C11_HiddenByAnyTimeout ==
    [][/\ AlertRaised => (alert'.show /\ alert'.message = ev'.msg)
       /\ ev'.op = "alert.timeout" => (alert' = HiddenAlert /\ timers' = timers - 1)
       /\ (alert.show /\ alert' # alert) =>
             \/ AlertRaised
             \/ AlertDismissed
             \/ ev'.op = "alert.timeout"]_vars

\* the timeout of an earlier call has hidden the alert of a later call, whose own
\* timeout is still pending
C11_Witness ==
    /\ ev.op = "alert.timeout"
    /\ ev.timer > 1
    /\ ev.msg # ""
    /\ alert = HiddenAlert
    /\ timers >= 1

\* C12: loading.query is true exactly while a POST query is pending, and
\* loading.collections exactly while a GET collections is pending, also when several
\* requests of the same kind overlap
C12_LoadingWhileInFlight ==
    /\ loading.query <=> Pending("query") # {}
    /\ loading.collections <=> Pending("collections") # {}

====
